---- MODULE Spec2Model ----
(***************************************************************************)
(* CHARLOTTE MVP: the plugin dispatcher (core/plugin_manager.py) and the   *)
(* pattern-based vulnerability scanner (plugins/vuln_scanner.py).          *)
(*                                                                         *)
(* Text is modelled as sequences of one-character strings, so that the     *)
(* regular expressions of the pattern catalog, str.split and str.strip     *)
(* are computed and not assumed.  A file holds bytes; the one byte that is *)
(* not valid UTF-8 is written "<ff>".                                      *)
(***************************************************************************)
EXTENDS Integers, Sequences, FiniteSets, TLC

VARIABLES
    fs,             \* the filesystem: listing order, bytes and permissions
    task,           \* task name given to core.plugin_manager.run_plugin
    args,           \* args mapping given to it
    pc,             \* position of the running call
    stack,          \* os.walk: directories still to be visited, next first
    cur_root,       \* os.walk: the directory being processed (root)
    pending,        \* the rest of `for file in files` of cur_root
    files_scanned,  \* scan_directory's counter
    all_findings,   \* scan_directory's accumulator
    scan_calls,     \* the paths handed to scan_file by the running call
    outcome,        \* how the call ended: a returned value or a raised fault
    prev,           \* the previous call of this process and what it returned
    ncalls,         \* number of dispatch calls started
    installed,      \* the importable modules and the attributes they define
    entry           \* the entry point of the module the dispatcher invoked

vars == <<fs, task, args, pc, stack, cur_root, pending, files_scanned,
          all_findings, scan_calls, outcome, prev, ncalls, installed, entry>>

-----------------------------------------------------------------------------
(* Characters and the regular expressions of re.search(p, line, IGNORECASE) *)

UpperCase ==
    <<"A", "B", "C", "D", "E", "F", "G", "H", "I", "J", "K", "L", "M",
      "N", "O", "P", "Q", "R", "S", "T", "U", "V", "W", "X", "Y", "Z">>

LowerCase ==
    <<"a", "b", "c", "d", "e", "f", "g", "h", "i", "j", "k", "l", "m",
      "n", "o", "p", "q", "r", "s", "t", "u", "v", "w", "x", "y", "z">>

\* str.lower() of one character
LowerMap == [c \in {UpperCase[i] : i \in 1..26} |->
                LowerCase[CHOOSE i \in 1..26 : UpperCase[i] = c]]

ToLower(c) == IF c \in DOMAIN LowerMap THEN LowerMap[c] ELSE c

\* str.lower()
StrLower(s) == [i \in 1..Len(s) |-> ToLower(s[i])]

\* the characters \s matches and str.strip() removes
Whitespace == {" ", "\t", "\r", "\f"}

\* One regular-expression item: a character class with a quantifier.  Under
\* re.IGNORECASE a character matches when its lower case does, so the classes
\* hold lower case and the line is matched in lower case.
Atom(k, cs, q, n) ==
    [k |-> k, cs |-> {ToLower(x) : x \in cs}, lit |-> <<>>, q |-> q, n |-> n]

\* a literal string: each character once
Lit(s) == [i \in 1..Len(s) |-> Atom("set", {s[i]}, "one", 1)]

\* \s*
Spaces == <<Atom("space", {}, "star", 0)>>

\* .*
AnyStar == <<Atom("any", {}, "star", 0)>>

\* one character of [...]
OneOf(cs) == <<Atom("set", cs, "one", 1)>>

\* (?!s)
NotAhead(s) ==
    <<[k |-> "nla", cs |-> {}, lit |-> StrLower(s), q |-> "one", n |-> 0]>>

\* does the (lower-case) character c belong to the item's class?
MatchChar(item, c) ==
    CASE item.k = "set"   -> c \in item.cs
      [] item.k = "nset"  -> c \notin item.cs
      [] item.k = "any"   -> c # "\n"
      [] item.k = "space" -> c \in Whitespace \cup {"\n"}
      [] OTHER            -> FALSE

\* the fewest characters the item consumes
MinCount(item) ==
    CASE item.q = "one"  -> 1
      [] item.q = "plus" -> 1
      [] item.q = "min"  -> item.n
      [] OTHER           -> 0

\* may the item consume d >= MinCount(item) characters?
QuantOK(item, d) ==
    CASE item.q = "one" -> d = 1
      [] item.q = "opt" -> d <= 1
      [] OTHER          -> TRUE

\* does line continue with lit at position p?
PrefixAt(lit, line, p) ==
    /\ p + Len(lit) - 1 <= Len(line)
    /\ \A i \in 1..Len(lit) : line[p + i - 1] = lit[i]

\* the positions the matcher can be at after the item, from positions S
Advance(item, line, S) ==
    IF item.k = "nla"
    THEN {p \in S : ~PrefixAt(item.lit, line, p)}
    ELSE IF item.q = "one"
    THEN {p + 1 : p \in {x \in S : x <= Len(line) /\ MatchChar(item, line[x])}}
    ELSE UNION {{q \in (p + MinCount(item))..(Len(line) + 1) :
                    /\ QuantOK(item, q - p)
                    /\ \A i \in p..(q - 1) : MatchChar(item, line[i])}
                : p \in S}

RECURSIVE RunItems(_, _, _, _)
RunItems(pat, j, line, S) ==
    IF S = {} \/ j > Len(pat) THEN S
    ELSE RunItems(pat, j + 1, line, Advance(pat[j], line, S))

\* re.search(pattern, line, re.IGNORECASE) is not None
re_search(pat, line) ==
    RunItems(pat, 1, StrLower(line), 1..(Len(line) + 1)) # {}

-----------------------------------------------------------------------------
(* The pattern catalog VULN_PATTERNS; in the comments \x22 is the double    *)
(* quote character.                                                         *)

Quotes == {"'", "\""}

\* pattern  execute\s*\(\s*['\x22].*%.*['\x22]\s*%
P_sql_format ==
    Lit(<<"e", "x", "e", "c", "u", "t", "e">>)
    \o Spaces
    \o Lit(<<"(">>)
    \o Spaces
    \o OneOf(Quotes)
    \o AnyStar
    \o Lit(<<"%">>)
    \o AnyStar
    \o OneOf(Quotes)
    \o Spaces
    \o Lit(<<"%">>)

\* pattern  execute\s*\(\s*.*\+.*\)
P_sql_concat ==
    Lit(<<"e", "x", "e", "c", "u", "t", "e">>)
    \o Spaces
    \o Lit(<<"(">>)
    \o Spaces
    \o AnyStar
    \o Lit(<<"+">>)
    \o AnyStar
    \o Lit(<<")">>)

\* pattern  \.format\s*\(.*SELECT
P_sql_select ==
    Lit(<<".", "f", "o", "r", "m", "a", "t">>)
    \o Spaces
    \o Lit(<<"(">>)
    \o AnyStar
    \o Lit(<<"S", "E", "L", "E", "C", "T">>)

\* pattern  innerHTML\s*=\s*[^;]+(?!sanitize)
P_xss_innerhtml ==
    Lit(<<"i", "n", "n", "e", "r", "H", "T", "M", "L">>)
    \o Spaces
    \o Lit(<<"=">>)
    \o Spaces
    \o <<Atom("nset", {";"}, "plus", 1)>>
    \o NotAhead(<<"s", "a", "n", "i", "t", "i", "z", "e">>)

\* pattern  document\.write\s*\(
P_xss_write ==
    Lit(<<"d", "o", "c", "u", "m", "e", "n", "t", ".", "w", "r", "i", "t", "e">>)
    \o Spaces
    \o Lit(<<"(">>)

\* pattern  eval\s*\(
P_xss_eval ==
    Lit(<<"e", "v", "a", "l">>)
    \o Spaces
    \o Lit(<<"(">>)

\* pattern  os\.system\s*\(.*\+
P_cmd_system ==
    Lit(<<"o", "s", ".", "s", "y", "s", "t", "e", "m">>)
    \o Spaces
    \o Lit(<<"(">>)
    \o AnyStar
    \o Lit(<<"+">>)

\* pattern  subprocess\..*shell\s*=\s*True
P_cmd_shell ==
    Lit(<<"s", "u", "b", "p", "r", "o", "c", "e", "s", "s", ".">>)
    \o AnyStar
    \o Lit(<<"s", "h", "e", "l", "l">>)
    \o Spaces
    \o Lit(<<"=">>)
    \o Spaces
    \o Lit(<<"T", "r", "u", "e">>)

\* pattern  exec\s*\(.*input
P_cmd_exec ==
    Lit(<<"e", "x", "e", "c">>)
    \o Spaces
    \o Lit(<<"(">>)
    \o AnyStar
    \o Lit(<<"i", "n", "p", "u", "t">>)

\* pattern  open\s*\(.*input.*\)
P_path_open ==
    Lit(<<"o", "p", "e", "n">>)
    \o Spaces
    \o Lit(<<"(">>)
    \o AnyStar
    \o Lit(<<"i", "n", "p", "u", "t">>)
    \o AnyStar
    \o Lit(<<")">>)

\* pattern  os\.path\.join\s*\(.*request\.
P_path_join ==
    Lit(<<"o", "s", ".", "p", "a", "t", "h", ".", "j", "o", "i", "n">>)
    \o Spaces
    \o Lit(<<"(">>)
    \o AnyStar
    \o Lit(<<"r", "e", "q", "u", "e", "s", "t", ".">>)

\* pattern  password\s*=\s*['\x22][^'\x22]+['\x22](?!\{)
P_sec_password ==
    Lit(<<"p", "a", "s", "s", "w", "o", "r", "d">>)
    \o Spaces
    \o Lit(<<"=">>)
    \o Spaces
    \o OneOf(Quotes)
    \o <<Atom("nset", Quotes, "plus", 1)>>
    \o OneOf(Quotes)
    \o NotAhead(<<"{">>)

\* pattern  api[_-]?key\s*=\s*['\x22][^'\x22]+['\x22](?!\{)
P_sec_api_key ==
    Lit(<<"a", "p", "i">>)
    \o <<Atom("set", {"_", "-"}, "opt", 1)>>
    \o Lit(<<"k", "e", "y">>)
    \o Spaces
    \o Lit(<<"=">>)
    \o Spaces
    \o OneOf(Quotes)
    \o <<Atom("nset", Quotes, "plus", 1)>>
    \o OneOf(Quotes)
    \o NotAhead(<<"{">>)

\* pattern  secret\s*=\s*['\x22][^'\x22]+['\x22](?!\{)
P_sec_secret ==
    Lit(<<"s", "e", "c", "r", "e", "t">>)
    \o Spaces
    \o Lit(<<"=">>)
    \o Spaces
    \o OneOf(Quotes)
    \o <<Atom("nset", Quotes, "plus", 1)>>
    \o OneOf(Quotes)
    \o NotAhead(<<"{">>)

\* pattern  token\s*=\s*['\x22][^'\x22]{20,}['\x22](?!\{)
P_sec_token ==
    Lit(<<"t", "o", "k", "e", "n">>)
    \o Spaces
    \o Lit(<<"=">>)
    \o Spaces
    \o OneOf(Quotes)
    \o <<Atom("nset", Quotes, "min", 20)>>
    \o OneOf(Quotes)
    \o NotAhead(<<"{">>)


\* VULN_PATTERNS in declaration order: (pattern, description) per category
VULN_PATTERNS ==
    << [type |-> "SQL Injection", patterns |-> <<
          [pattern |-> P_sql_format, description |-> "String formatting in SQL query"],
          [pattern |-> P_sql_concat, description |-> "String concatenation in SQL query"],
          [pattern |-> P_sql_select, description |-> "String formatting with SELECT"] >>],
       [type |-> "XSS", patterns |-> <<
          [pattern |-> P_xss_innerhtml, description |-> "Potential XSS via innerHTML"],
          [pattern |-> P_xss_write, description |-> "Unsafe document.write usage"],
          [pattern |-> P_xss_eval, description |-> "Dangerous eval() usage"] >>],
       [type |-> "Command Injection", patterns |-> <<
          [pattern |-> P_cmd_system, description |-> "Command injection via os.system"],
          [pattern |-> P_cmd_shell, description |-> "Shell injection risk"],
          [pattern |-> P_cmd_exec, description |-> "Executing user input"] >>],
       [type |-> "Path Traversal", patterns |-> <<
          [pattern |-> P_path_open, description |-> "User input in file path"],
          [pattern |-> P_path_join, description |-> "Request data in path"] >>],
       [type |-> "Hardcoded Secrets", patterns |-> <<
          [pattern |-> P_sec_password, description |-> "Hardcoded password"],
          [pattern |-> P_sec_api_key, description |-> "Hardcoded API key"],
          [pattern |-> P_sec_secret, description |-> "Hardcoded secret"],
          [pattern |-> P_sec_token, description |-> "Hardcoded token"] >>] >>

\* SCANNABLE_EXTENSIONS
SCANNABLE_EXTENSIONS ==
    {<<".", "p", "y">>,
     <<".", "j", "s">>,
     <<".", "j", "a", "v", "a">>,
     <<".", "p", "h", "p">>,
     <<".", "r", "b">>,
     <<".", "g", "o">>,
     <<".", "c">>,
     <<".", "c", "p", "p">>,
     <<".", "h">>,
     <<".", "c", "s">>,
     <<".", "t", "s">>,
     <<".", "j", "s", "x">>,
     <<".", "t", "s", "x">>}

\* variant of get_severity: "XSS" left out of high_severity
get_severity_no_xss(vuln_type) ==
    IF vuln_type \in {"SQL Injection", "Command Injection"} THEN "HIGH"
    ELSE IF vuln_type \in {"Path Traversal"} THEN "MEDIUM"
    ELSE "LOW"

\* get_severity(vuln_type)
get_severity(vuln_type) ==
    IF vuln_type \in {"SQL Injection", "Command Injection", "XSS"} THEN "HIGH"
    ELSE IF vuln_type \in {"Path Traversal"} THEN "MEDIUM"
    ELSE "LOW"

-----------------------------------------------------------------------------
(* scan_file: decoding, splitting into lines, the three nested loops        *)

\* str(path) of an absolute path
RECURSIVE PathStr(_)
PathStr(path) ==
    IF path = <<>> THEN <<>>
    ELSE <<"/">> \o Head(path) \o PathStr(Tail(path))

\* the byte that is not valid UTF-8
BadByte == "<ff>"

\* bytes -> str under open(..., encoding='utf-8', errors='ignore'):
\* undecodable bytes are dropped, the rest is kept
Decode(bytes) == SelectSeq(bytes, LAMBDA b : b # BadByte)

\* content.split('\n')
RECURSIVE SplitLines(_)
SplitLines(s) ==
    IF \A i \in 1..Len(s) : s[i] # "\n" THEN <<s>>
    ELSE LET i == CHOOSE k \in 1..Len(s) :
                    s[k] = "\n" /\ \A m \in 1..(k - 1) : s[m] # "\n"
         IN  <<SubSeq(s, 1, i - 1)>> \o SplitLines(SubSeq(s, i + 1, Len(s)))

\* line.strip()
Strip(line) ==
    LET keep == {i \in 1..Len(line) : line[i] \notin Whitespace \cup {"\n"}}
    IN  IF keep = {} THEN <<>>
        ELSE SubSeq(line, CHOOSE i \in keep : \A k \in keep : i <= k,
                          CHOOSE i \in keep : \A k \in keep : i >= k)

\* variant of Finding: enumerate(lines) counting from 0
Finding_zero_based(file_path, line_num, vuln_type, description, line) ==
    [file |-> PathStr(file_path), line |-> line_num - 1, type |-> vuln_type,
     description |-> description, code |-> Strip(line),
     severity |-> get_severity(vuln_type)]

\* the findings.append({...}) of one match
Finding(file_path, line_num, vuln_type, description, line) ==
    [file |-> PathStr(file_path), line |-> line_num, type |-> vuln_type,
     description |-> description, code |-> Strip(line),
     severity |-> get_severity(vuln_type)]

\* variant of ScanLines: a break after the first matching line
RECURSIVE ScanLines_first_only(_, _, _, _, _)
ScanLines_first_only(file_path, vuln_type, rule, lines, line_num) ==
    IF line_num > Len(lines) THEN <<>>
    ELSE IF re_search(rule.pattern, lines[line_num])
    THEN <<Finding(file_path, line_num, vuln_type, rule.description, lines[line_num])>>
    ELSE ScanLines_first_only(file_path, vuln_type, rule, lines, line_num + 1)

\* for line_num, line in enumerate(lines, 1): if re.search(...): append
RECURSIVE ScanLines(_, _, _, _, _)
ScanLines(file_path, vuln_type, rule, lines, line_num) ==
    IF line_num > Len(lines) THEN <<>>
    ELSE (IF re_search(rule.pattern, lines[line_num])
          THEN <<Finding(file_path, line_num, vuln_type, rule.description,
                         lines[line_num])>>
          ELSE <<>>)
         \o ScanLines(file_path, vuln_type, rule, lines, line_num + 1)

\* for pattern, description in patterns
RECURSIVE ScanRules(_, _, _, _)
ScanRules(file_path, cat, lines, r) ==
    IF r > Len(cat.patterns) THEN <<>>
    ELSE ScanLines(file_path, cat.type, cat.patterns[r], lines, 1)
         \o ScanRules(file_path, cat, lines, r + 1)

\* for vuln_type, patterns in VULN_PATTERNS.items()
RECURSIVE ScanCategories(_, _, _)
ScanCategories(file_path, lines, c) ==
    IF c > Len(VULN_PATTERNS) THEN <<>>
    ELSE ScanRules(file_path, VULN_PATTERNS[c], lines, 1)
         \o ScanCategories(file_path, lines, c + 1)

\* the body of scan_file's try block on the text read from the file
ScanContent(file_path, content) ==
    ScanCategories(file_path, SplitLines(content), 1)

\* variant of scan_file: errors='strict', so an undecodable byte raises
\* UnicodeDecodeError, which the except clause swallows
scan_file_strict(f, file_path) ==
    IF f.readable[file_path] /\ \A i \in 1..Len(f.bytes[file_path]) : f.bytes[file_path][i] # BadByte
    THEN ScanContent(file_path, f.bytes[file_path])
    ELSE <<>>

\* scan_file(file_path) on a filesystem f: open or read raising an Exception
\* (the file is not readable) leaves findings empty
scan_file(f, file_path) ==
    IF f.readable[file_path]
    THEN ScanContent(file_path, Decode(f.bytes[file_path]))
    ELSE <<>>

-----------------------------------------------------------------------------
(* Lines of source text the scanned files are made of                       *)

L_sql_format ==
    <<"c", "u", "r", ".", "e", "x", "e", "c", "u", "t", "e", "(", "\"", "a", "%", "s", "\"", " ", "%", " ", "x", ")">>

L_sql_concat ==
    <<"d", "b", ".", "e", "x", "e", "c", "u", "t", "e", "(", "q", " ", "+", " ", "x", ")">>

L_sql_select ==
    <<"s", ".", "f", "o", "r", "m", "a", "t", "(", "x", ",", " ", "\"", "s", "e", "l", "e", "c", "t", "\"", ")">>

L_innerhtml ==
    <<"e", ".", "i", "n", "n", "e", "r", "H", "T", "M", "L", " ", "=", " ", "v">>

L_sanitized ==
    <<"e", ".", "i", "n", "n", "e", "r", "H", "T", "M", "L", " ", "=", " ", "s", "a", "n", "i", "t", "i", "z", "e", "(", "v", ")">>

L_write ==
    <<"d", "o", "c", "u", "m", "e", "n", "t", ".", "w", "r", "i", "t", "e", "(", "x", ")">>

L_eval ==
    <<" ", " ", "e", "v", "a", "l", "(", "x", ")", " ", " ">>

L_eval_upper ==
    <<"E", "V", "A", "L", " ", "(", "x", ")">>

L_system ==
    <<"o", "s", ".", "s", "y", "s", "t", "e", "m", "(", "\"", "l", "s", " ", "\"", " ", "+", " ", "d", ")">>

L_shell ==
    <<"s", "u", "b", "p", "r", "o", "c", "e", "s", "s", ".", "r", "u", "n", "(", "c", ",", " ", "s", "h", "e", "l", "l", "=", "T", "r", "u", "e", ")">>

L_exec ==
    <<"e", "x", "e", "c", "(", "i", "n", "p", "u", "t", "(", ")", ")">>

L_open ==
    <<"o", "p", "e", "n", "(", "i", "n", "p", "u", "t", "(", ")", ")">>

L_join ==
    <<"o", "s", ".", "p", "a", "t", "h", ".", "j", "o", "i", "n", "(", "b", ",", " ", "r", "e", "q", "u", "e", "s", "t", ".", "p", ")">>

L_password ==
    <<"p", "a", "s", "s", "w", "o", "r", "d", " ", "=", " ", "\"", "p", "w", "\"">>

L_template ==
    <<"p", "a", "s", "s", "w", "o", "r", "d", " ", "=", " ", "\"", "p", "w", "\"", "{">>

L_api_key ==
    <<"A", "P", "I", "-", "K", "E", "Y", " ", "=", " ", "'", "k", "'">>

L_secret ==
    <<"s", "e", "c", "r", "e", "t", "=", "\"", "s", "\"">>

L_token ==
    <<"t", "o", "k", "e", "n", " ", "=", " ", "\"", "a", "b", "c", "d", "e", "f", "g", "h", "i", "j", "k", "l", "m", "n", "o", "p", "q", "r", "s", "t", "\"">>

L_token_short ==
    <<"t", "o", "k", "e", "n", " ", "=", " ", "\"", "a", "b", "c", "\"">>

L_multi ==
    <<"e", "v", "a", "l", "(", "o", "p", "e", "n", "(", "i", "n", "p", "u", "t", "(", ")", ")", ")">>

L_query ==
    <<"q", "u", "e", "r", "y", " ", "=", " ", "\"", "S", "E", "L", "E", "C", "T", " ", "*", " ", "F", "R", "O", "M", " ", "t", " ", "W", "H", "E", "R", "E", " ", "i", "d", "=", "\"", " ", "+", " ", "u", "s", "e", "r", "_", "i", "d">>

L_plain ==
    <<"x", " ", "=", " ", "1">>

L_undecodable ==
    <<"e", "v", "<ff>", "a", "l", "(", "x", ")">>

\* the empty line
L_empty == <<>>

SampleLines ==
    {L_sql_format, L_sql_concat, L_sql_select, L_innerhtml, L_sanitized,
     L_write, L_eval, L_eval_upper, L_system, L_shell,
     L_exec, L_open, L_join, L_password, L_template,
     L_api_key, L_secret, L_token, L_token_short, L_multi,
     L_query, L_plain, L_undecodable,
     L_empty}

-----------------------------------------------------------------------------
(* Paths (pathlib.Path) and the filesystem                                  *)

\* the directory names scan_directory removes from dirs
EXCLUDED_DIRS ==
    {<<"n", "o", "d", "e", "_", "m", "o", "d", "u", "l", "e", "s">>,
     <<".", "g", "i", "t">>,
     <<"_", "_", "p", "y", "c", "a", "c", "h", "e", "_", "_">>,
     <<"v", "e", "n", "v">>,
     <<"e", "n", "v">>,
     <<".", "v", "e", "n", "v">>,
     <<"d", "i", "s", "t">>,
     <<"b", "u", "i", "l", "d">>,
     <<"t", "a", "r", "g", "e", "t">>}

\* Path(root) / name
PathJoin(root, name) == Append(root, name)

\* Path.suffix: from the last dot of the final component, unless that dot is
\* its first or its last character
PathSuffix(path) ==
    LET name == path[Len(path)]
        dots == {i \in 1..Len(name) : name[i] = "."}
    IN  IF dots = {} THEN <<>>
        ELSE LET i == CHOOSE d \in dots : \A e \in dots : e <= d
             IN  IF 1 < i /\ i < Len(name) THEN SubSeq(name, i, Len(name))
                 ELSE <<>>

\* file_path.suffix.lower() in SCANNABLE_EXTENSIONS
Eligible(file_path) == StrLower(PathSuffix(file_path)) \in SCANNABLE_EXTENSIONS

n_w == <<"w">>
n_lib == <<"l", "i", "b">>
n_node_modules == <<"n", "o", "d", "e", "_", "m", "o", "d", "u", "l", "e", "s">>
n_pkg == <<"p", "k", "g">>
n_app_py == <<"a", "p", "p", ".", "p", "y">>
n_notes_txt == <<"n", "o", "t", "e", "s", ".", "t", "x", "t">>
n_util_JS == <<"u", "t", "i", "l", ".", "J", "S">>
n_main_go == <<"m", "a", "i", "n", ".", "g", "o">>
n_dep_py == <<"d", "e", "p", ".", "p", "y">>
n_nope == <<"n", "o", "p", "e">>

\* the tree: /w, /w/lib, /w/lib/node_modules, /w/lib/node_modules/pkg
D_w == <<n_w>>
D_lib == <<n_w, n_lib>>
D_nm == <<n_w, n_lib, n_node_modules>>
D_pkg == <<n_w, n_lib, n_node_modules, n_pkg>>

F_app == PathJoin(D_w, n_app_py)
F_notes == PathJoin(D_w, n_notes_txt)
F_util == PathJoin(D_lib, n_util_JS)
F_main == PathJoin(D_lib, n_main_go)
F_dep == PathJoin(D_pkg, n_dep_py)

\* a path that does not exist
P_nope == PathJoin(D_w, n_nope)

DirPaths == {D_w, D_lib, D_nm, D_pkg}
FilePaths == {F_app, F_notes, F_util, F_main, F_dep}

\* the entries of each directory that are directories, and those that are not
SubDirs(d) ==
    CASE d = D_w   -> {n_lib}
      [] d = D_lib -> {n_node_modules}
      [] d = D_nm  -> {n_pkg}
      [] OTHER     -> {}

FilesIn(d) ==
    CASE d = D_w   -> {n_app_py, n_notes_txt}
      [] d = D_lib -> {n_util_JS, n_main_go}
      [] d = D_pkg -> {n_dep_py}
      [] OTHER     -> {}

\* the orders in which a directory listing can enumerate a set of names
Perms(S) ==
    {s \in [1..Cardinality(S) -> S] : \A i, j \in 1..Cardinality(S) : s[i] = s[j] => i = j}

\* "\n".join(lines)
RECURSIVE JoinLines(_)
JoinLines(lines) ==
    IF Len(lines) = 0 THEN <<>>
    ELSE IF Len(lines) = 1 THEN lines[1]
    ELSE lines[1] \o <<"\n">> \o JoinLines(Tail(lines))

\* what the files of the tree hold
B_plain == L_plain
B_app == JoinLines(<<L_eval, L_plain, L_secret>>)
B_util == JoinLines(<<L_plain, L_open>>)
B_main == L_undecodable
B_notes == JoinLines(<<L_password, L_sql_concat>>)
B_dep == L_system

\* every way os.walk can list the sub-directories of each directory, and every
\* way it can list the files of each directory
DirOrders ==
    {o \in [DirPaths -> UNION {Perms(SubDirs(d)) : d \in DirPaths}] :
        \A d \in DirPaths : o[d] \in Perms(SubDirs(d))}

FileOrders ==
    {o \in [DirPaths -> UNION {Perms(FilesIn(d)) : d \in DirPaths}] :
        \A d \in DirPaths : o[d] \in Perms(FilesIn(d))}

\* the filesystems: every listing order; app.py clean, vulnerable, or
\* vulnerable and not readable by this process
FileSystems ==
    LET Bytes(a, u) == (F_app :> a) @@ (F_notes :> B_notes) @@ (F_util :> u)
                       @@ (F_main :> B_main) @@ (F_dep :> B_dep)
        Readable(ra, ru) ==
            [f \in FilePaths |-> IF f = F_app THEN ra ELSE IF f = F_util THEN ru ELSE TRUE]
        Kinds == {k \in {B_plain, B_app} \X BOOLEAN \X {B_util} \X {TRUE} :
                    k[1] = B_plain => k[2]}
    IN  {[dirs |-> ds, files |-> fl, bytes |-> Bytes(k[1], k[3]),
          readable |-> Readable(k[2], k[4])] :
            ds \in DirOrders, fl \in FileOrders, k \in Kinds}

\* path.exists(), path.is_file()
Exists(path) == path \in DirPaths \cup FilePaths
IsFile(path) == path \in FilePaths

-----------------------------------------------------------------------------
(* format_results                                                           *)

\* finding['code'][:100]
Snippet(code) == SubSeq(code, 1, IF Len(code) < 100 THEN Len(code) ELSE 100)

\* variant of BySeverity: insert(0, f) in place of append(f)
BySeverity_prepend(findings, severity) ==
    LET s == SelectSeq(findings, LAMBDA f : f.severity = severity)
    IN  [i \in 1..Len(s) |-> s[Len(s) + 1 - i]]

\* by_severity[severity] after the grouping loop
BySeverity(findings, severity) ==
    SelectSeq(findings, LAMBDA f : f.severity = severity)

\* one "<severity> Severity Issues" section: its numbered entries
Section(findings, severity) ==
    LET items == BySeverity(findings, severity)
    IN  [severity |-> severity, count |-> Len(items),
         items |-> [i \in 1..Len(items) |->
                      [n |-> i, type |-> items[i].type, file |-> items[i].file,
                       line |-> items[i].line, issue |-> items[i].description,
                       code |-> Snippet(items[i].code)]]]

\* variant of format_results: without the early return of lines 119-120
format_results_always_header(findings, n) ==
    [msg |-> "Vulnerability Scan Results",
     files_scanned |-> n,
     issues_found |-> Len(findings),
     high |-> Len(BySeverity(findings, "HIGH")),
     medium |-> Len(BySeverity(findings, "MEDIUM")),
     low |-> Len(BySeverity(findings, "LOW")),
     sections |-> SelectSeq(
         <<Section(findings, "HIGH"), Section(findings, "MEDIUM"),
           Section(findings, "LOW")>>,
         LAMBDA s : s.count > 0)]

\* format_results(findings, files_scanned): the text, as the fields it prints
format_results(findings, n) ==
    IF findings = <<>>
    THEN [msg |-> "No vulnerabilities found", files_scanned |-> n]
    ELSE [msg |-> "Vulnerability Scan Results",
          files_scanned |-> n,
          issues_found |-> Len(findings),
          high |-> Len(BySeverity(findings, "HIGH")),
          medium |-> Len(BySeverity(findings, "MEDIUM")),
          low |-> Len(BySeverity(findings, "LOW")),
          sections |-> SelectSeq(
              <<Section(findings, "HIGH"), Section(findings, "MEDIUM"),
                Section(findings, "LOW")>>,
              LAMBDA s : s.count > 0)]

-----------------------------------------------------------------------------
(* core/plugin_manager.py: registry, aliases, loading                       *)

\* PLUGIN_REGISTRY: task_name -> (category, module_name)
PLUGIN_REGISTRY == [vuln_scan |-> <<"plugins", "vuln_scanner">>]

\* ALIASES
ALIASES == [scan |-> "vuln_scan", vulnerability_scan |-> "vuln_scan"]

\* variants of AliasGet: no alias is resolved; an unknown name falls back to
\* the scanner
AliasGet_identity(t) == t
AliasGet_fallback(t) == IF t \in DOMAIN ALIASES THEN ALIASES[t] ELSE "vuln_scan"

\* ALIASES.get(task, task)
AliasGet(t) == IF t \in DOMAIN ALIASES THEN ALIASES[t] ELSE t

\* the classes caught by `except Exception`; KeyboardInterrupt and SystemExit
\* derive from BaseException only
ExceptionClasses ==
    {"ImportError", "ModuleNotFoundError", "TypeError", "AttributeError"}

NoOutcome == [kind |-> "none", value |-> [msg |-> ""]]
Returned(v) == [kind |-> "returned", value |-> v]
Raised(fault) == [kind |-> "raised", value |-> [msg |-> fault]]

\* variant of OnFault: `except ImportError` in place of `except Exception`
OnFault_import_only(fault) ==
    IF fault \in {"ImportError", "ModuleNotFoundError"}
    THEN Returned([msg |-> "Plugin execution failed", error |-> fault])
    ELSE Raised(fault)

\* a fault raised inside run_plugin's try block: `except Exception as e`
\* returns "[!] Plugin execution failed: {e}", anything else propagates
OnFault(fault) ==
    IF fault \in ExceptionClasses
    THEN Returned([msg |-> "Plugin execution failed", error |-> fault])
    ELSE Raised(fault)

\* _load_plugin_module(category, module_name) with the modules inst: the
\* module, or the ModuleNotFoundError raised when both imports fail
_load_plugin_module(inst, category, module_name) ==
    IF <<category, module_name>> \in DOMAIN inst
    THEN [found |-> TRUE, attrs |-> inst[<<category, module_name>>]]
    ELSE IF <<"plugins", module_name>> \in DOMAIN inst
    THEN [found |-> TRUE, attrs |-> inst[<<"plugins", module_name>>]]
    ELSE [found |-> FALSE, attrs |-> {}]

\* the installations: plugins.vuln_scanner absent, or present and defining
\* some of the entry points (the shipped module defines run_plugin only)
Installs ==
    {<< >>} \cup
    {(<<"plugins", "vuln_scanner">> :> a) : a \in SUBSET {"run_plugin", "run"}}

-----------------------------------------------------------------------------
(* The calls                                                                *)

\* the largest integer max_files tried
MaxCap == 2

\* the number of dispatch calls one process makes
MaxCalls == 2

\* max_files = args.get("max_files", 1000)
DEFAULT_MAX_FILES == 1000

Tasks == {"vuln_scan", "scan", "vulnerability_scan", "does_not_exist"}

\* args["path"]: absent, or a path string
PathArgs ==
    {[given |-> FALSE, p |-> <<>>]} \cup
    {[given |-> TRUE, p |-> p] : p \in {D_nm, F_app, F_notes, P_nope}}

\* args["max_files"]: absent, an integer, or a value no integer compares with
MaxFilesArgs ==
    {[t |-> "absent", v |-> 0], [t |-> "str", v |-> 0]} \cup
    {[t |-> "int", v |-> n] : n \in (-1)..MaxCap}

ArgsSet == {[path |-> p, max_files |-> mf] : p \in PathArgs, mf \in MaxFilesArgs}

\* Path(args.get("path", ".")).resolve(); the working directory is /w
ScanPath(a) == IF a.path.given THEN a.path.p ELSE D_w

\* args.get("max_files", 1000)
MaxFiles(a) ==
    IF a.max_files.t = "absent" THEN [t |-> "int", v |-> DEFAULT_MAX_FILES]
    ELSE a.max_files

\* files_scanned >= max_files raises TypeError for a non-number
CompareRaises(mf) == mf.t # "int"

\* variant of CapReached: > in place of >=
CapReached_strict(n, mf) == n > mf.v

\* files_scanned >= max_files
CapReached(n, mf) == n >= mf.v

Init ==
    /\ fs \in FileSystems
    /\ installed \in Installs
    /\ task \in Tasks
    /\ args \in ArgsSet
    /\ pc = "idle"
    /\ stack = <<>>
    /\ cur_root = <<>>
    /\ pending = <<>>
    /\ files_scanned = 0
    /\ all_findings = <<>>
    /\ scan_calls = <<>>
    /\ outcome = NoOutcome
    /\ prev = [task |-> "", outcome |-> NoOutcome, entry |-> "", scan_calls |-> <<>>]
    /\ ncalls = 0
    /\ entry = ""

\* core.plugin_manager.run_plugin(task, args), lines 59-64
Dispatch ==
    /\ pc = "idle"
    /\ ncalls' = ncalls + 1
    /\ IF AliasGet(task) \notin DOMAIN PLUGIN_REGISTRY
       THEN /\ outcome' = Returned([msg |-> "Unknown plugin", task |-> task])
            /\ pc' = "done"
       ELSE /\ pc' = "load"
            /\ UNCHANGED outcome
    /\ UNCHANGED <<fs, task, args, stack, cur_root, pending, files_scanned,
                   all_findings, scan_calls, prev, installed, entry>>

\* variant of LoadPlugin: the two hasattr tests in the other order
LoadPlugin_run_first ==
    /\ pc = "load"
    /\ LET reg == PLUGIN_REGISTRY[AliasGet(task)]
           mod == _load_plugin_module(installed, reg[1], reg[2])
       IN  IF ~mod.found
           THEN /\ outcome' = OnFault("ModuleNotFoundError")
                /\ pc' = "done"
                /\ UNCHANGED entry
           ELSE IF "run" \in mod.attrs
           THEN /\ entry' = "run"
                /\ pc' = "plugin"
                /\ UNCHANGED outcome
           ELSE IF "run_plugin" \in mod.attrs
           THEN /\ entry' = "run_plugin"
                /\ pc' = "plugin"
                /\ UNCHANGED outcome
           ELSE /\ outcome' = Returned([msg |-> "Plugin has no run() or run_plugin() function",
                                        module |-> reg[2]])
                /\ pc' = "done"
                /\ UNCHANGED entry
    /\ UNCHANGED <<fs, task, args, stack, cur_root, pending, files_scanned,
                   all_findings, scan_calls, prev, ncalls, installed>>

\* lines 64-76: load the module and choose its entry point
LoadPlugin ==
    /\ pc = "load"
    /\ LET reg == PLUGIN_REGISTRY[AliasGet(task)]
           mod == _load_plugin_module(installed, reg[1], reg[2])
       IN  IF ~mod.found
           THEN /\ outcome' = OnFault("ModuleNotFoundError")
                /\ pc' = "done"
                /\ UNCHANGED entry
           ELSE IF "run_plugin" \in mod.attrs
           THEN /\ entry' = "run_plugin"
                /\ pc' = "plugin"
                /\ UNCHANGED outcome
           ELSE IF "run" \in mod.attrs
           THEN /\ entry' = "run"
                /\ pc' = "plugin"
                /\ UNCHANGED outcome
           ELSE /\ outcome' = Returned([msg |-> "Plugin has no run() or run_plugin() function",
                                        module |-> reg[2]])
                /\ pc' = "done"
                /\ UNCHANGED entry
    /\ UNCHANGED <<fs, task, args, stack, cur_root, pending, files_scanned,
                   all_findings, scan_calls, prev, ncalls, installed>>

\* variant of PluginStart: a root that is a file passes the extension test
\* before it is scanned and counted
PluginStart_filtered ==
    /\ pc = "plugin"
    /\ LET path == ScanPath(args)
       IN  IF ~Exists(path)
           THEN /\ outcome' = Returned([msg |-> "Path not found", scan_path |-> args.path])
                /\ pc' = "done"
                /\ UNCHANGED <<stack, files_scanned, all_findings, scan_calls>>
           ELSE IF IsFile(path)
           THEN /\ all_findings' = IF Eligible(path) THEN scan_file(fs, path) ELSE <<>>
                /\ files_scanned' = IF Eligible(path) THEN 1 ELSE 0
                /\ scan_calls' = IF Eligible(path) THEN <<path>> ELSE <<>>
                /\ outcome' = Returned(format_results(all_findings', files_scanned'))
                /\ pc' = "done"
                /\ UNCHANGED stack
           ELSE /\ all_findings' = <<>>
                /\ files_scanned' = 0
                /\ stack' = <<path>>
                /\ pc' = "walk"
                /\ UNCHANGED <<outcome, scan_calls>>
    /\ UNCHANGED <<fs, task, args, cur_root, pending, prev, ncalls, installed, entry>>

\* variant of PluginStart: without the test of lines 165-166; os.walk of a
\* path that does not exist yields nothing
PluginStart_unchecked ==
    /\ pc = "plugin"
    /\ LET path == ScanPath(args)
       IN  IF IsFile(path)
           THEN /\ all_findings' = scan_file(fs, path)
                /\ files_scanned' = 1
                /\ scan_calls' = <<path>>
                /\ outcome' = Returned(format_results(all_findings', files_scanned'))
                /\ pc' = "done"
                /\ UNCHANGED stack
           ELSE /\ all_findings' = <<>>
                /\ files_scanned' = 0
                /\ stack' = IF Exists(path) THEN <<path>> ELSE <<>>
                /\ pc' = "walk"
                /\ UNCHANGED <<outcome, scan_calls>>
    /\ UNCHANGED <<fs, task, args, cur_root, pending, prev, ncalls, installed, entry>>

\* plugins.vuln_scanner.run_plugin(args), lines 157-176, up to the directory walk
PluginStart ==
    /\ pc = "plugin"
    /\ LET path == ScanPath(args)
       IN  IF ~Exists(path)
           THEN /\ outcome' = Returned([msg |-> "Path not found", scan_path |-> args.path])
                /\ pc' = "done"
                /\ UNCHANGED <<stack, files_scanned, all_findings, scan_calls>>
           ELSE IF IsFile(path)
           THEN /\ all_findings' = scan_file(fs, path)
                /\ files_scanned' = 1
                /\ scan_calls' = <<path>>
                /\ outcome' = Returned(format_results(all_findings', files_scanned'))
                /\ pc' = "done"
                /\ UNCHANGED stack
           ELSE /\ all_findings' = <<>>
                /\ files_scanned' = 0
                /\ stack' = <<path>>
                /\ pc' = "walk"
                /\ UNCHANGED <<outcome, scan_calls>>
    /\ UNCHANGED <<fs, task, args, cur_root, pending, prev, ncalls, installed, entry>>

\* variant of KeptDirs: `dirs = [...]` rebinds the name and prunes nothing
KeptDirs_rebound(dirs) == dirs

\* the directories of dirs that scan_directory keeps (lines 95-98)
KeptDirs(dirs) == SelectSeq(dirs, LAMBDA d : d \notin EXCLUDED_DIRS)

\* `for root, dirs, files in os.walk(path)`: the next directory, top-down, and
\* the pruning of its dirs in place
WalkDir ==
    /\ pc = "walk"
    /\ IF stack = <<>>
       THEN /\ pc' = "return"
            /\ UNCHANGED <<stack, cur_root, pending>>
       ELSE LET top == Head(stack)
                kept == KeptDirs(fs.dirs[top])
            IN  /\ cur_root' = top
                /\ pending' = fs.files[top]
                /\ stack' = [i \in 1..Len(kept) |-> PathJoin(top, kept[i])] \o Tail(stack)
                /\ pc' = "files"
    /\ UNCHANGED <<fs, task, args, files_scanned, all_findings, scan_calls,
                   outcome, prev, ncalls, installed, entry>>

\* variant of ForFile: the counter is advanced only for a file scan_file
\* could read
ForFile_count_readable ==
    /\ pc = "files"
    /\ pending # <<>>
    /\ IF CompareRaises(MaxFiles(args))
       THEN /\ outcome' = OnFault("TypeError")
            /\ pc' = "done"
            /\ UNCHANGED <<pending, files_scanned, all_findings, scan_calls>>
       ELSE /\ ~CapReached(files_scanned, MaxFiles(args))
            /\ LET file_path == PathJoin(cur_root, Head(pending))
               IN  IF Eligible(file_path)
                   THEN /\ all_findings' = all_findings \o scan_file(fs, file_path)
                        /\ files_scanned' =
                              IF fs.readable[file_path] THEN files_scanned + 1
                              ELSE files_scanned
                        /\ scan_calls' = Append(scan_calls, file_path)
                   ELSE UNCHANGED <<all_findings, files_scanned, scan_calls>>
            /\ pending' = Tail(pending)
            /\ UNCHANGED <<outcome, pc>>
    /\ UNCHANGED <<fs, task, args, stack, cur_root, prev, ncalls, installed, entry>>

\* one iteration of `for file in files` that does not break (lines 100-110)
ForFile ==
    /\ pc = "files"
    /\ pending # <<>>
    /\ IF CompareRaises(MaxFiles(args))
       THEN /\ outcome' = OnFault("TypeError")
            /\ pc' = "done"
            /\ UNCHANGED <<pending, files_scanned, all_findings, scan_calls>>
       ELSE /\ ~CapReached(files_scanned, MaxFiles(args))
            /\ LET file_path == PathJoin(cur_root, Head(pending))
               IN  IF Eligible(file_path)
                   THEN /\ all_findings' = all_findings \o scan_file(fs, file_path)
                        /\ files_scanned' = files_scanned + 1
                        /\ scan_calls' = Append(scan_calls, file_path)
                   ELSE UNCHANGED <<all_findings, files_scanned, scan_calls>>
            /\ pending' = Tail(pending)
            /\ UNCHANGED <<outcome, pc>>
    /\ UNCHANGED <<fs, task, args, stack, cur_root, prev, ncalls, installed, entry>>

\* variant of EndOfFiles: without the test of lines 112-113, so the walk goes
\* on to the next directory after the inner break
EndOfFiles_no_outer_break ==
    /\ pc = "files"
    /\ IF CompareRaises(MaxFiles(args))
       THEN /\ pending = <<>>
            /\ outcome' = OnFault("TypeError")
            /\ pc' = "done"
       ELSE /\ pending = <<>> \/ CapReached(files_scanned, MaxFiles(args))
            /\ pc' = "walk"
            /\ UNCHANGED outcome
    /\ UNCHANGED <<fs, task, args, stack, cur_root, pending, files_scanned,
                   all_findings, scan_calls, prev, ncalls, installed, entry>>

\* the end of `for file in files`, by exhaustion or by break, and the test
\* of line 112 that follows it
EndOfFiles ==
    /\ pc = "files"
    /\ IF CompareRaises(MaxFiles(args))
       THEN /\ pending = <<>>
            /\ outcome' = OnFault("TypeError")
            /\ pc' = "done"
       ELSE /\ pending = <<>> \/ CapReached(files_scanned, MaxFiles(args))
            /\ pc' = IF CapReached(files_scanned, MaxFiles(args)) THEN "return" ELSE "walk"
            /\ UNCHANGED outcome
    /\ UNCHANGED <<fs, task, args, stack, cur_root, pending, files_scanned,
                   all_findings, scan_calls, prev, ncalls, installed, entry>>

\* `return all_findings, files_scanned`, format_results (line 176), and the
\* dispatcher returning that value
ReturnScan ==
    /\ pc = "return"
    /\ outcome' = Returned(format_results(all_findings, files_scanned))
    /\ pc' = "done"
    /\ UNCHANGED <<fs, task, args, stack, cur_root, pending, files_scanned,
                   all_findings, scan_calls, prev, ncalls, installed, entry>>

\* Ctrl-C while the call runs: KeyboardInterrupt is raised in it and unwinds
\* its frames
Interrupt ==
    /\ pc \in {"load", "plugin", "walk", "files", "return"}
    /\ outcome' = OnFault("KeyboardInterrupt")
    /\ pc' = "done"
    /\ stack' = <<>>
    /\ cur_root' = <<>>
    /\ pending' = <<>>
    /\ files_scanned' = 0
    /\ all_findings' = <<>>
    /\ scan_calls' = <<>>
    /\ UNCHANGED <<fs, task, args, prev, ncalls, installed, entry>>

\* the menu loop calls the dispatcher again, on the same filesystem with the
\* same args, after a call that returned
NextCall ==
    /\ pc = "done"
    /\ outcome.kind = "returned"
    /\ ncalls < MaxCalls
    /\ prev' = [task |-> task, outcome |-> outcome, entry |-> entry,
                 scan_calls |-> scan_calls]
    /\ task' \in Tasks
    /\ pc' = "idle"
    /\ stack' = <<>>
    /\ cur_root' = <<>>
    /\ pending' = <<>>
    /\ files_scanned' = 0
    /\ all_findings' = <<>>
    /\ scan_calls' = <<>>
    /\ outcome' = NoOutcome
    /\ entry' = ""
    /\ UNCHANGED <<fs, args, ncalls, installed>>

Next ==
    \/ Dispatch
    \/ LoadPlugin
    \/ PluginStart
    \/ WalkDir
    \/ ForFile
    \/ EndOfFiles
    \/ ReturnScan
    \/ Interrupt
    \/ NextCall

Spec == Init /\ [][Next]_vars

-----------------------------------------------------------------------------
(* scan_file on its own: one readable file of any content                   *)

\* the largest number of lines of a scanned file
MaxLines == 2

\* the contents: up to MaxLines sample lines joined by newlines (a last empty
\* line is a trailing newline)
ScanContents ==
    {JoinLines(ls) : ls \in UNION {[1..n -> SampleLines] : n \in 1..MaxLines}}

\* one listing order of the tree
SomeDirOrder == CHOOSE o \in DirOrders : TRUE
SomeFileOrder == CHOOSE o \in FileOrders : TRUE

ScanInit ==
    /\ \E content \in ScanContents :
          fs = [dirs |-> SomeDirOrder,
                files |-> SomeFileOrder,
                bytes |-> (F_app :> content) @@ (F_notes :> B_notes)
                          @@ (F_util :> B_util) @@ (F_main :> B_main)
                          @@ (F_dep :> B_dep),
                readable |-> [f \in FilePaths |-> TRUE]]
    /\ installed = (<<"plugins", "vuln_scanner">> :> {"run_plugin"})
    /\ task = "vuln_scan"
    /\ args = [path |-> [given |-> TRUE, p |-> F_app],
               max_files |-> [t |-> "absent", v |-> 0]]
    /\ pc = "unit"
    /\ stack = <<>>
    /\ cur_root = <<>>
    /\ pending = <<>>
    /\ files_scanned = 0
    /\ all_findings = <<>>
    /\ scan_calls = <<>>
    /\ outcome = NoOutcome
    /\ prev = [task |-> "", outcome |-> NoOutcome, entry |-> "", scan_calls |-> <<>>]
    /\ ncalls = 0
    /\ entry = ""

\* findings = scan_file(path)
ScanFileCall ==
    /\ pc = "unit"
    /\ all_findings' = scan_file(fs, ScanPath(args))
    /\ scan_calls' = <<ScanPath(args)>>
    /\ pc' = "unit_done"
    /\ UNCHANGED <<fs, task, args, stack, cur_root, pending, files_scanned,
                   outcome, prev, ncalls, installed, entry>>

ScanNext == ScanFileCall

ScanSpec == ScanInit /\ [][ScanNext]_vars

-----------------------------------------------------------------------------
(* Properties                                                               *)

\* the call under way is a directory scan by the scanner
DirScan == entry # "" /\ ScanPath(args) \in DirPaths

\* the eligible files at or below directory d with no excluded directory
\* between d and the file
RECURSIVE EligibleBelow(_)
EligibleBelow(d) ==
    {PathJoin(d, n) : n \in {x \in FilesIn(d) : Eligible(PathJoin(d, x))}}
    \cup UNION {EligibleBelow(PathJoin(d, s)) : s \in SubDirs(d) \ EXCLUDED_DIRS}

\* the call returned the report of a directory scan with an integer cap
ReportedDirScan ==
    /\ pc = "done"
    /\ DirScan
    /\ outcome.kind = "returned"
    /\ MaxFiles(args).t = "int"

\* C1 as stated: for a directory scan with any integer cap N over a tree of
\* M > N eligible files, the reported count of scanned files is exactly N.
C1_CountEqualsCap ==
    (ReportedDirScan /\ Cardinality(EligibleBelow(ScanPath(args))) > MaxFiles(args).v)
        => outcome.value.files_scanned = MaxFiles(args).v

\* C1 amended: the same for a cap N >= 0 (a negative cap is reached before
\* any file and the count reported is 0).
C1_CountEqualsNonNegativeCap ==
    (ReportedDirScan /\ Cardinality(EligibleBelow(ScanPath(args))) > MaxFiles(args).v)
        => outcome.value.files_scanned =
              (IF MaxFiles(args).v >= 0 THEN MaxFiles(args).v ELSE 0)

\* a capped scan that counted files of two directories
C1_Witness ==
    /\ ReportedDirScan
    /\ Cardinality(EligibleBelow(ScanPath(args))) > MaxFiles(args).v
    /\ outcome.value.files_scanned = 2
    /\ \E i, j \in 1..Len(scan_calls) : Len(scan_calls[i]) # Len(scan_calls[j])

\* C2 as stated: no file handed to scan_file has a directory of the exclusion
\* set anywhere on its path, whatever the scan root.
C2_NoExcludedOnPath ==
    \A i \in 1..Len(scan_calls) :
        \A k \in 1..(Len(scan_calls[i]) - 1) : scan_calls[i][k] \notin EXCLUDED_DIRS

\* C2 amended: in a directory scan no file handed to scan_file has a directory
\* of the exclusion set between the scan root and the file, at any depth; the
\* root and the directories above it are not tested.
C2_NoExcludedBelowRoot ==
    DirScan =>
        \A i \in 1..Len(scan_calls) :
            \A k \in (Len(ScanPath(args)) + 1)..(Len(scan_calls[i]) - 1) :
                scan_calls[i][k] \notin EXCLUDED_DIRS

\* a finished scan of /w that went through /w/lib, which holds node_modules
C2_Witness ==
    /\ ReportedDirScan
    /\ ScanPath(args) = D_w
    /\ \E i \in 1..Len(scan_calls) : scan_calls[i] = F_util
    /\ outcome.value.files_scanned = 3

\* C3 as stated: every dispatch call ends by returning a value; no fault
\* propagates to the caller.
C3_NoFaultPropagates == pc = "done" => outcome.kind = "returned"

\* C3 amended: a call ends by returning a value or by KeyboardInterrupt (a
\* fault outside Exception) propagating; a module that cannot be loaded and a
\* TypeError raised by the scanner end as the "execution failed" result.
C3_ExceptionsConverted ==
    pc = "done" =>
        /\ outcome.kind = "returned" \/ outcome = Raised("KeyboardInterrupt")
        /\ (outcome.kind = "returned" /\ installed = << >>
                /\ task \in {"vuln_scan", "scan", "vulnerability_scan"})
              => outcome.value = [msg |-> "Plugin execution failed",
                                  error |-> "ModuleNotFoundError"]
        /\ (outcome.kind = "returned" /\ DirScan /\ args.max_files.t = "str")
              => outcome.value = [msg |-> "Plugin execution failed",
                                  error |-> "TypeError"]

\* a TypeError of the scanner came back as a result
C3_Witness ==
    /\ pc = "done"
    /\ outcome = Returned([msg |-> "Plugin execution failed", error |-> "TypeError"])

\* C4: two calls with the same args on the same filesystem, one under an alias
\* and one under "vuln_scan", that both return, invoke the same entry point on
\* the same files and return the same value.
C4_AliasEquivalence ==
    (/\ pc = "done"
     /\ outcome.kind = "returned"
     /\ prev.outcome.kind = "returned"
     /\ \/ prev.task \in {"scan", "vulnerability_scan"} /\ task = "vuln_scan"
        \/ prev.task = "vuln_scan" /\ task \in {"scan", "vulnerability_scan"})
        => /\ outcome = prev.outcome
           /\ entry = prev.entry
           /\ scan_calls = prev.scan_calls

\* a report with findings returned under the alias and again under the name
C4_Witness ==
    /\ pc = "done"
    /\ prev.task = "scan"
    /\ task = "vuln_scan"
    /\ outcome.kind = "returned"
    /\ outcome.value.msg = "Vulnerability Scan Results"
    /\ outcome = prev.outcome

\* C5: a task name that is neither a registry key nor an alias of one gets the
\* "Unknown plugin" result: the call is never at the loading or running of a
\* module, invokes no entry point and scans nothing.
C5_UnknownPlugin ==
    task \notin {"vuln_scan", "scan", "vulnerability_scan"} =>
        /\ pc \in {"idle", "done"}
        /\ pc = "done" =>
              /\ outcome = Returned([msg |-> "Unknown plugin", task |-> task])
              /\ entry = ""
              /\ scan_calls = <<>>

\* an unknown task name was dispatched
C5_Witness ==
    /\ pc = "done"
    /\ task = "does_not_exist"
    /\ outcome.kind = "returned"

\* the lines of the file scan_file was called on
ScannedLines == SplitLines(Decode(fs.bytes[ScanPath(args)]))

\* scan_file has returned from a file it could read
ScannedReadable == pc = "unit_done" /\ fs.readable[ScanPath(args)]

\* the rules, by category number and number within the category
RuleIds ==
    UNION {{<<c, r>> : r \in 1..Len(VULN_PATTERNS[c].patterns)} :
              c \in 1..Len(VULN_PATTERNS)}

RuleAt(id) == VULN_PATTERNS[id[1]].patterns[id[2]]

\* is finding f the finding of rule id at line l?
IsFindingOf(f, id, l) ==
    /\ f.type = VULN_PATTERNS[id[1]].type
    /\ f.description = RuleAt(id).description
    /\ f.line = l

\* category number, rule number, line number of a finding
KeyOf(f) ==
    CHOOSE k \in RuleIds \X (1..Len(ScannedLines)) : IsFindingOf(f, k[1], k[2])

KeyLess(a, b) ==
    \/ a[1][1] < b[1][1]
    \/ a[1][1] = b[1][1] /\ a[1][2] < b[1][2]
    \/ a[1] = b[1] /\ a[2] < b[2]

\* the (rule, line) pairs whose pattern matches the line
MatchingPairs ==
    {k \in RuleIds \X (1..Len(ScannedLines)) :
        re_search(RuleAt(k[1]).pattern, ScannedLines[k[2]])}

\* C6: scan_file returns one finding for each (rule, line) pair whose pattern
\* matches the line and nothing else, ordered by category, then rule, then
\* line number; each finding carries the file and the stripped line.
C6_OneFindingPerMatch ==
    ScannedReadable =>
        /\ \A i \in 1..Len(all_findings) :
              /\ \E k \in MatchingPairs : IsFindingOf(all_findings[i], k[1], k[2])
              /\ all_findings[i].code = Strip(ScannedLines[all_findings[i].line])
              /\ all_findings[i].file = PathStr(ScanPath(args))
        /\ \A i \in 1..(Len(all_findings) - 1) :
              KeyLess(KeyOf(all_findings[i]), KeyOf(all_findings[i + 1]))
        /\ Len(all_findings) = Cardinality(MatchingPairs)

\* two rules matched one line and one rule matched two lines
C6_Witness ==
    /\ ScannedReadable
    /\ \E i, j \in 1..Len(all_findings) :
          /\ all_findings[i].line = all_findings[j].line
          /\ all_findings[i].type # all_findings[j].type
    /\ \E i, j \in 1..Len(all_findings) :
          /\ all_findings[i].line # all_findings[j].line
          /\ all_findings[i].description = all_findings[j].description

\* the severity the catalog's categories are declared to have
DeclaredSeverity(type) ==
    CASE type \in {"SQL Injection", "Command Injection", "XSS"} -> "HIGH"
      [] type = "Path Traversal" -> "MEDIUM"
      [] OTHER -> "LOW"

\* the file has one line (with or without a newline after it)
SingleLineFile ==
    \/ Len(ScannedLines) = 1
    \/ Len(ScannedLines) = 2 /\ ScannedLines[2] = <<>>

\* C7 as stated: a single-line file whose line triggers a rule gives exactly
\* one finding, of the rule's category, that category's severity and line 1.
C7_ExactlyOneFinding ==
    (ScannedReadable /\ SingleLineFile) =>
        \A id \in RuleIds :
            re_search(RuleAt(id).pattern, ScannedLines[1]) =>
                /\ Len(all_findings) = 1
                /\ all_findings[1].type = VULN_PATTERNS[id[1]].type
                /\ all_findings[1].severity = DeclaredSeverity(VULN_PATTERNS[id[1]].type)
                /\ all_findings[1].line = 1

\* C7 amended: a single-line file whose line triggers a rule gives exactly one
\* finding of that rule, with the rule's category, that category's severity
\* and line 1; every other rule the line triggers adds a finding of its own.
C7_OneFindingPerTriggeredRule ==
    (ScannedReadable /\ SingleLineFile) =>
        \A id \in RuleIds :
            re_search(RuleAt(id).pattern, ScannedLines[1]) =>
                LET mine == {i \in 1..Len(all_findings) :
                                all_findings[i].description = RuleAt(id).description}
                IN  /\ Cardinality(mine) = 1
                    /\ \A i \in mine :
                          /\ all_findings[i].type = VULN_PATTERNS[id[1]].type
                          /\ all_findings[i].severity =
                                DeclaredSeverity(VULN_PATTERNS[id[1]].type)
                          /\ all_findings[i].line = 1

\* a single line that triggers two rules
C7_Witness ==
    /\ ScannedReadable
    /\ SingleLineFile
    /\ Len(all_findings) = 2
    /\ all_findings[1].type # all_findings[2].type

\* C8: a file with the line  query = "SELECT * FROM t WHERE id=" + user_id  has
\* exactly one finding at that line, of category SQL Injection, severity HIGH.
C8_QueryLineIsSqlInjection ==
    ScannedReadable =>
        \A l \in 1..Len(ScannedLines) :
            ScannedLines[l] = L_query =>
                LET at == {i \in 1..Len(all_findings) : all_findings[i].line = l}
                IN  /\ Cardinality(at) = 1
                    /\ \A i \in at : /\ all_findings[i].type = "SQL Injection"
                                     /\ all_findings[i].severity = "HIGH"

\* C9: every finding's severity is the severity of its category: HIGH for SQL
\* Injection, Command Injection and XSS, MEDIUM for Path Traversal, LOW for
\* every other category; get_severity gives the same for any category name.
C9_SeverityByCategory ==
    /\ \A i \in 1..Len(all_findings) :
          all_findings[i].severity = DeclaredSeverity(all_findings[i].type)
    /\ \A t \in {"SQL Injection", "Command Injection", "XSS", "Path Traversal",
                 "Hardcoded Secrets", "Weak Crypto", ""} :
          get_severity(t) = DeclaredSeverity(t)

\* findings of the three severities in one scan
C9_Witness ==
    \A s \in {"HIGH", "MEDIUM", "LOW"} :
        \E i \in 1..Len(all_findings) : all_findings[i].severity = s

\* what scan_file is to give for path p: nothing when the file cannot be read,
\* else the findings of its text without the undecodable bytes
FindingsOf(p) ==
    IF fs.readable[p] THEN ScanContent(p, Decode(fs.bytes[p])) ELSE <<>>

RECURSIVE FindingsOfAll(_)
FindingsOfAll(paths) ==
    IF paths = <<>> THEN <<>>
    ELSE FindingsOf(Head(paths)) \o FindingsOfAll(Tail(paths))

\* does some finding name file p?
HasFinding(p) == \E i \in 1..Len(all_findings) : all_findings[i].file = PathStr(p)

\* C10 as stated: in a directory scan a file that cannot be read or holds
\* bytes that cannot be decoded contributes no finding.
C10_UnreadableOrUndecodableSkipped ==
    DirScan =>
        \A p \in FilePaths :
            (~fs.readable[p] \/ \E i \in 1..Len(fs.bytes[p]) : fs.bytes[p][i] = BadByte)
                => ~HasFinding(p)

\* C10 amended: in a directory scan a file that cannot be read contributes no
\* finding, the findings are those of the files scanned so far in order (a
\* file with undecodable bytes is scanned with those bytes dropped), and a
\* scan that ends below its cap has scanned every eligible file under the
\* root, unreadable ones included.
C10_UnreadableSkippedScanContinues ==
    DirScan =>
        /\ \A p \in FilePaths : ~fs.readable[p] => ~HasFinding(p)
        /\ all_findings = FindingsOfAll(scan_calls)
        /\ (ReportedDirScan /\ outcome.value.files_scanned < MaxFiles(args).v)
              => {scan_calls[i] : i \in 1..Len(scan_calls)} = EligibleBelow(ScanPath(args))

\* a finished scan that met an unreadable file first and reported findings of
\* files scanned after it
C10_Witness ==
    /\ ReportedDirScan
    /\ Len(scan_calls) = 3
    /\ ~fs.readable[scan_calls[1]]
    /\ HasFinding(scan_calls[2])
    /\ HasFinding(scan_calls[3])

-----------------------------------------------------------------------------
(* Properties of the report                                                 *)

\* the call returned the report format_results renders for findings
FullReport ==
    /\ pc = "done"
    /\ outcome.kind = "returned"
    /\ outcome.value.msg = "Vulnerability Scan Results"

SeverityRank(s) == CASE s = "HIGH" -> 1 [] s = "MEDIUM" -> 2 [] OTHER -> 3

\* the places of the report's sections: section number, entry number
ReportSlots ==
    UNION {{<<s, k>> : k \in 1..Len(outcome.value.sections[s].items)} :
              s \in 1..Len(outcome.value.sections)}

\* does the entry at place sl show finding f?
ShowsFinding(sl, f) ==
    LET item == outcome.value.sections[sl[1]].items[sl[2]]
    IN  /\ item.type = f.type
        /\ item.file = f.file
        /\ item.line = f.line
        /\ item.issue = f.description
        /\ item.code = Snippet(f.code)

SlotsOf(i) == {sl \in ReportSlots : ShowsFinding(sl, all_findings[i])}

\* C11: the report of a non-empty finding sequence lists every finding exactly
\* once, in the section of its own severity; the sections come in the order
\* HIGH, MEDIUM, LOW, none of them empty, and within a section the findings
\* keep their relative order of the input sequence.
C11_SectionsBySeverity ==
    FullReport =>
        LET secs == outcome.value.sections
        IN  /\ all_findings # <<>>
            /\ \A s \in 1..(Len(secs) - 1) :
                  SeverityRank(secs[s].severity) < SeverityRank(secs[s + 1].severity)
            /\ \A s \in 1..Len(secs) :
                  /\ secs[s].count = Len(secs[s].items)
                  /\ secs[s].count > 0
                  /\ \A k \in 1..Len(secs[s].items) : secs[s].items[k].n = k
            /\ Cardinality(ReportSlots) = Len(all_findings)
            /\ \A i \in 1..Len(all_findings) :
                  /\ Cardinality(SlotsOf(i)) = 1
                  /\ \A sl \in SlotsOf(i) :
                        secs[sl[1]].severity = all_findings[i].severity
            /\ \A i, j \in 1..Len(all_findings) :
                  (i < j /\ all_findings[i].severity = all_findings[j].severity)
                      => \A a \in SlotsOf(i), b \in SlotsOf(j) : a[2] < b[2]

\* a report of three sections, two findings in one of them, rendered from
\* findings that were not in the order of their severities
C11_Witness ==
    /\ FullReport
    /\ Len(outcome.value.sections) = 3
    /\ \E s \in 1..3 : outcome.value.sections[s].count >= 2
    /\ \E i, j \in 1..Len(all_findings) :
          /\ i < j
          /\ SeverityRank(all_findings[i].severity) > SeverityRank(all_findings[j].severity)

\* C12: a directory scan that produced no finding returns the single message
\* "No vulnerabilities found" with the file count and nothing else (no header,
\* no counts by severity, no section), and the count is the number of
\* extension-eligible files the walk handed to scan_file, each of them once.
C12_NoFindingsMessage ==
    (ReportedDirScan /\ all_findings = <<>>) =>
        /\ outcome.value = [msg |-> "No vulnerabilities found",
                            files_scanned |-> Len(scan_calls)]
        /\ \A i \in 1..Len(scan_calls) : Eligible(scan_calls[i])
        /\ \A i, j \in 1..Len(scan_calls) : scan_calls[i] = scan_calls[j] => i = j

\* a directory scan that read one file, found nothing in it and passed over a
\* file that is not eligible
C12_Witness ==
    /\ ReportedDirScan
    /\ all_findings = <<>>
    /\ Len(scan_calls) = 1
    /\ fs.readable[scan_calls[1]]
    /\ outcome.value.files_scanned = 1
    /\ fs.files[D_w][1] = n_notes_txt

\* the scanner's entry point was invoked on a root that does not exist
MissingRoot == entry # "" /\ ~Exists(ScanPath(args))

\* C13: when the scan root does not exist the scanner returns the "Path not
\* found" message naming the path as given, and the traversal never starts:
\* the call is never at the walk, no directory is listed, no file is handed to
\* scan_file and no report is rendered.
C13_PathNotFound ==
    MissingRoot =>
        /\ pc \in {"plugin", "done"}
        /\ stack = <<>>
        /\ cur_root = <<>>
        /\ pending = <<>>
        /\ scan_calls = <<>>
        /\ files_scanned = 0
        /\ (pc = "done" /\ outcome.kind = "returned")
              => outcome.value = [msg |-> "Path not found", scan_path |-> args.path]

\* a call on the missing path returned
C13_Witness ==
    /\ MissingRoot
    /\ pc = "done"
    /\ outcome.kind = "returned"
    /\ args.path.p = P_nope

\* the attributes of the module the registry names, when it can be imported
LoadedAttrs ==
    IF <<"plugins", "vuln_scanner">> \in DOMAIN installed
    THEN installed[<<"plugins", "vuln_scanner">>]
    ELSE {}

\* what the scanner's entry point returns at the end of its run
EntryPointResult ==
    IF ~Exists(ScanPath(args))
    THEN [msg |-> "Path not found", scan_path |-> args.path]
    ELSE format_results(all_findings, files_scanned)

\* the state part of C14
EntryPointChosen ==
    /\ entry \in {"", "run_plugin", "run"}
    /\ entry = "run_plugin" => "run_plugin" \in LoadedAttrs
    /\ entry = "run" => ("run" \in LoadedAttrs /\ "run_plugin" \notin LoadedAttrs)
    /\ pc \in {"idle", "load"} => entry = ""
    /\ pc \in {"plugin", "walk", "files", "return"} => entry # ""
    /\ (pc = "done" /\ outcome.kind = "returned"
            /\ AliasGet(task) \in DOMAIN PLUGIN_REGISTRY
            /\ <<"plugins", "vuln_scanner">> \in DOMAIN installed)
          => /\ "run_plugin" \in LoadedAttrs => entry = "run_plugin"
             /\ ("run_plugin" \notin LoadedAttrs /\ "run" \in LoadedAttrs) => entry = "run"
             /\ LoadedAttrs = {}
                   => /\ entry = ""
                      /\ outcome.value =
                            [msg |-> "Plugin has no run() or run_plugin() function",
                             module |-> "vuln_scanner"]
             /\ (entry # "" /\ outcome.value.msg # "Plugin execution failed")
                   => outcome.value = EntryPointResult

\* C14: when the registered module is loaded, dispatch invokes run_plugin if
\* the module has it, and run only when run_plugin is absent; the entry point
\* is invoked in one step of the call, from the loading of the module, and
\* never again until the call has ended; the value it returns is the value
\* dispatch returns.
C14_EntryPointPreference ==
    /\ []EntryPointChosen
    /\ [][entry' # entry =>
            \/ pc = "load" /\ entry = "" /\ pc' = "plugin"
            \/ pc = "done" /\ entry' = "" /\ pc' = "idle"]_vars

\* a module with both entry points was loaded, run_plugin was invoked and its
\* report came back from dispatch
C14_Witness ==
    /\ pc = "done"
    /\ outcome.kind = "returned"
    /\ LoadedAttrs = {"run_plugin", "run"}
    /\ entry = "run_plugin"
    /\ outcome.value.msg = "Vulnerability Scan Results"

-----------------------------------------------------------------------------
(* Properties of the traversal                                              *)

\* the eligible files at or below directory d of filesystem f in the order of
\* the top-down walk: the files of d as listed, then the listed
\* sub-directories that are not excluded, each with all below it
RECURSIVE WalkOrder(_, _), WalkOrderAll(_, _, _)
WalkOrder(f, d) ==
    SelectSeq([i \in 1..Len(f.files[d]) |-> PathJoin(d, f.files[d][i])], Eligible)
    \o WalkOrderAll(f, d, SelectSeq(f.dirs[d], LAMBDA n : n \notin EXCLUDED_DIRS))

WalkOrderAll(f, d, names) ==
    IF names = <<>> THEN <<>>
    ELSE WalkOrder(f, PathJoin(d, Head(names))) \o WalkOrderAll(f, d, Tail(names))

\* the first n elements of s (all of s when it has fewer, none when n < 0)
FirstN(s, n) ==
    SubSeq(s, 1, IF n < 0 THEN 0 ELSE IF n > Len(s) THEN Len(s) ELSE n)

\* a directory scan with an integer cap that no fault has ended
CappedDirScan ==
    /\ DirScan
    /\ MaxFiles(args).t = "int"
    /\ outcome.kind # "raised"

\* C15: in a directory scan with cap N the files handed to scan_file are at
\* every moment the first ones of the eligible files in traversal order and
\* never more than N; the counter is their number (a file that is not
\* eligible does not advance it); after the first directory the walk takes a
\* directory only while the counter is below N; and the scan that returns has
\* scanned exactly the first N eligible files in traversal order.
C15_CapCutoff ==
    CappedDirScan =>
        LET N == MaxFiles(args).v
            order == WalkOrder(fs, ScanPath(args))
        IN  /\ Len(scan_calls) <= Len(order)
            /\ scan_calls = SubSeq(order, 1, Len(scan_calls))
            /\ Len(scan_calls) <= (IF N < 0 THEN 0 ELSE N)
            /\ files_scanned = Len(scan_calls)
            /\ (pc = "walk" /\ cur_root # <<>>) => files_scanned < N
            /\ (pc = "done" /\ outcome.kind = "returned")
                  => scan_calls = FirstN(order, N)

\* a scan with cap 1 that passed over a file that is not eligible, scanned the
\* next file and returned with a directory still to visit and two eligible
\* files not scanned
C15_Witness ==
    /\ ReportedDirScan
    /\ MaxFiles(args).v = 1
    /\ fs.files[D_w][1] = n_notes_txt
    /\ scan_calls = <<F_app>>
    /\ stack # <<>>
    /\ Len(WalkOrder(fs, ScanPath(args))) = 3

\* the characters of the tree's names by code point: ".", A-Z, "_", a-z
CodeOrder == <<".">> \o UpperCase \o <<"_">> \o LowerCase

Ord(c) == CHOOSE i \in 1..Len(CodeOrder) : CodeOrder[i] = c

\* a < b as Python compares two str
LexLess(a, b) ==
    \E k \in 1..(Len(a) + 1) :
        /\ k <= Len(b) + 1
        /\ \A i \in 1..(k - 1) : a[i] = b[i]
        /\ \/ k = Len(a) + 1 /\ k <= Len(b)
           \/ k <= Len(a) /\ k <= Len(b) /\ Ord(a[k]) < Ord(b[k])

\* sorted(names)
SortNames(names) ==
    CHOOSE s \in Perms({names[i] : i \in 1..Len(names)}) :
        \A i, j \in 1..Len(s) : i < j => LexLess(s[i], s[j])

\* filesystem f with every directory listed in lexical order of entry names
LexicalListing(f) ==
    [f EXCEPT !.dirs = [d \in DOMAIN f.dirs |-> SortNames(f.dirs[d])],
              !.files = [d \in DOMAIN f.files |-> SortNames(f.files[d])]]

\* C16: whatever order the filesystem enumerates the entries of a directory
\* in, a directory scan with cap N has scanned the first N eligible files of
\* the walk that takes the entries of each directory in lexical order of
\* their names, and its findings are those files' findings in that order.
C16_LexicalOrder ==
    ReportedDirScan =>
        LET lex == FirstN(WalkOrder(LexicalListing(fs), ScanPath(args)),
                          MaxFiles(args).v)
        IN  /\ scan_calls = lex
            /\ all_findings = FindingsOfAll(lex)

\* the scanner's entry point was invoked on a root that is a file
FileRoot == entry # "" /\ IsFile(ScanPath(args))

\* C17: when the scan root is an existing file the walk never starts, and the
\* call that returns has handed exactly that file to scan_file, reports its
\* findings and a file count of 1, whatever the file's extension.
C17_SingleFileRoot ==
    FileRoot =>
        /\ pc \in {"plugin", "done"}
        /\ stack = <<>>
        /\ cur_root = <<>>
        /\ (pc = "done" /\ outcome.kind = "returned")
              => /\ scan_calls = <<ScanPath(args)>>
                 /\ all_findings = FindingsOf(ScanPath(args))
                 /\ files_scanned = 1
                 /\ outcome.value.files_scanned = 1

\* notes.txt, whose extension is not scannable, was scanned as the root and
\* its findings reported with a count of 1
C17_Witness ==
    /\ FileRoot
    /\ pc = "done"
    /\ outcome.kind = "returned"
    /\ ScanPath(args) = F_notes
    /\ ~Eligible(F_notes)
    /\ HasFinding(F_notes)
    /\ outcome.value.files_scanned = 1

\* C18: at every point of a directory scan the counter is the number of files
\* handed to scan_file so far, all of them eligible and each handed once,
\* whether or not scan_file could read them; the count reported is that
\* number, and with an integer cap N it never exceeds N, so a file that
\* cannot be read takes one unit of the cap.
C18_CounterCountsUnreadable ==
    (DirScan /\ outcome.kind # "raised") =>
        /\ files_scanned = Len(scan_calls)
        /\ \A i \in 1..Len(scan_calls) : Eligible(scan_calls[i])
        /\ \A i, j \in 1..Len(scan_calls) : scan_calls[i] = scan_calls[j] => i = j
        /\ ReportedDirScan
              => /\ outcome.value.files_scanned = Len(scan_calls)
                 /\ Len(scan_calls) <=
                       (IF MaxFiles(args).v < 0 THEN 0 ELSE MaxFiles(args).v)

\* a scan with cap 1 whose one unit went to a file that cannot be read: the
\* count reported is 1 and the readable eligible files were not scanned
C18_Witness ==
    /\ ReportedDirScan
    /\ MaxFiles(args).v = 1
    /\ Len(scan_calls) = 1
    /\ ~fs.readable[scan_calls[1]]
    /\ outcome.value.files_scanned = 1
    /\ Len(WalkOrder(fs, ScanPath(args))) = 3

====
